---- MODULE Spec2Model ----
(***************************************************************************)
(* Model of the AI reliability fabric of the HR backend:                   *)
(*   - AIOrchestrator (app/services/ai_orchestrator.py): kill switch,      *)
(*     credential guard, tenacity retry around _do_call, fallback model,   *)
(*     analyze_text JSON decoding;                                         *)
(*   - TaskService (app/services/task_service.py): persisted background    *)
(*     tasks, enqueue, process_task_wrapper, process_task.                 *)
(*   - AITrustService (app/services/ai_trust_service.py) with             *)
(*     TrustMetadata (app/schemas/trust.py) and AuditService               *)
(*     (app/services/audit.py) over one SQLAlchemy session;                *)
(*   - ComplianceService (app/services/compliance.py): retention purge;    *)
(*   - the leave endpoints (app/routers/leave.py, leave_manager.py);       *)
(*   - two workers running process_task on one task id.                    *)
(* Each subsystem has its own specification; the variables of the other    *)
(* subsystems stay at their initial values.                                *)
(***************************************************************************)
EXTENDS Integers, Sequences, FiniteSets, TLC

VARIABLES
    kill_switch,    \* settings.ai.kill_switch
    api_key,        \* settings.ai.openrouter_api_key is set (truthy)
    pc,             \* position of the one gateway request: idle/primary/fallback/done
    entry,          \* public method the request entered: call_model / analyze_text
    json_output,    \* json_output argument of call_model
    attempt_number, \* tenacity attempt number inside the running _do_call
    attempts,       \* log of requests.post calls: <<[model, outcome, content]>>
    primary_exc,    \* exception e caught at call_model line 115
    result,         \* what the request gave its caller
    raised,         \* number of exceptions propagated to the caller
    db_session,     \* a db_session argument is passed to call_model
    gov,            \* governance-log writes attempted for the request, in order
    caller_tx,      \* the caller's uncommitted changes in db_session:
                    \* none/pending/committed/rolled_back
    http,           \* the HTTP response of the endpoint request in progress
    tasks,          \* rows of the tasks table, index = Task.id
    scheduled,      \* BackgroundTasks queue: task ids awaiting process_task_wrapper
    hist,           \* per task: what each handler invocation did, in order
    dbfault,        \* per task: a commit failed after its PROCESSING mark
    last_op,        \* the last TaskService call and how it ended
    running,        \* id of the task whose handler is running, 0 when none
    faults,         \* number of db.commit() calls that have failed so far
    default_max_retries, \* column default of Task.max_retries
    wargs,          \* arguments the caller passes to wrap_and_log
    sess_active,    \* the session's transaction is usable (no failed flush pending)
    sess_business,  \* the caller's own change in the session: none/pending/committed/lost
    sess_audit,     \* audit rows flushed in the open transaction, not yet committed
    audit_db,       \* committed rows of the audit table
    next_audit_id,  \* next primary key of the audit table
    n_log,          \* number of log_action calls made so far
    response,       \* what the last wrap_and_log call gave its caller
    diag,           \* diagnostic events the last call logged
    trust_op,       \* the last trust/audit/session call and how it ended
    now,            \* the clock, in days
    retention_days, \* retention_days argument of the last enforce_data_retention
    leaves,         \* rows of the leave_requests table, index = LeaveRequest.id
    approvals,      \* per leave request: approve calls that took effect on it
    leave_op,       \* the last leave endpoint call and how it ended
    shared,         \* the one Task row two workers are dispatched on
    workers,        \* per worker: its position in process_task and the row it loaded
    invoked,        \* pairs <<attempt, worker>>: the worker invoked the handler for it
    dispatches      \* number of process_task calls started so far

gwvars == <<kill_switch, api_key, pc, entry, json_output, attempt_number,
            attempts, primary_exc, result, raised, db_session, gov, caller_tx,
            http>>
taskvars == <<tasks, scheduled, hist, dbfault, last_op, running, faults,
             default_max_retries>>
trustvars == <<wargs, sess_active, sess_business, sess_audit, audit_db,
              next_audit_id, n_log, response, diag, trust_op, now,
              retention_days>>
leavevars == <<leaves, approvals, leave_op>>
workervars == <<shared, workers, invoked, dispatches>>
vars == <<gwvars, taskvars, trustvars, leavevars, workervars>>

----------------------------------------------------------------------------
(* Bounds *)

\* longest response text returned by the provider
MaxLen == 3

\* number of tasks enqueue may create
MaxTasks == 2

\* largest max_retries a task row carries
MaxRetriesBound == 3

\* number of db.commit() calls the storage lets fail
MaxFaults == 1

\* number of log_action calls in one run
MaxLogCalls == 2

\* number of days the clock runs
MaxDays == 2

\* leave requests submitted
MaxLeaves == 2

\* largest required_levels of a leave request
MaxLevels == 2

\* approve calls counted per leave request
MaxApprovals == 3

\* process_task calls started on the shared task
MaxDispatches == 3

----------------------------------------------------------------------------
(* AIOrchestrator *)

\* characters of a response text: braces, a digit, a letter
Chars == {"{", "}", "1", "a"}

RECURSIVE SeqsUpTo(_)
SeqsUpTo(n) ==
    IF n = 0 THEN {<< >>}
    ELSE LET S == SeqsUpTo(n - 1)
         IN  S \cup {Append(s, c) : s \in {t \in S : Len(t) = n - 1}, c \in Chars}

Contents == SeqsUpTo(MaxLen)

\* what one requests.post + raise_for_status + body access can do
Outcomes == {"ok", "timeout", "http_5xx", "http_4xx", "bad_body"}

NoExc == [cls |-> "", message |-> << >>]

NoResult == [kind |-> "none", value |-> << >>, cls |-> "", message |-> << >>]

TextResult(t) == [kind |-> "text", value |-> t, cls |-> "", message |-> << >>]

JsonResult(t) == [kind |-> "json", value |-> t, cls |-> "", message |-> << >>]

ErrResult(e) == [kind |-> "error", value |-> << >>, cls |-> e.cls, message |-> e.message]

AIError(msg) == [cls |-> "AIError", message |-> msg]

AIKillSwitchError == [cls |-> "AIKillSwitchError",
                      message |-> <<"AI services are currently offline for maintenance.">>]

\* variant: one attempt more before giving up
StopAfterAttemptPlus == 3 + 1

\* variant: one attempt fewer before giving up
StopAfterAttemptMinus == 3 - 1

\* stop=stop_after_attempt(3)
StopAfterAttempt == 3

\* variant: only transport exceptions are retried, AIError is not
RetryIfRequestExceptionOnly(exc) == exc.cls \in {"RequestException"}

\* retry=retry_if_exception_type((RequestException, AIError))
RetryIfExceptionType(exc) == exc.cls \in {"RequestException", "AIError"}

\* the except clauses of _do_call: every failure leaves _do_call as an AIError
MapException(outcome) ==
    CASE outcome = "timeout"  -> AIError(<<"AI service reached timeout limit.">>)
      [] outcome = "http_5xx" -> AIError(<<"AI service returned error: ", "500">>)
      [] outcome = "http_4xx" -> AIError(<<"AI service returned error: ", "400">>)
      [] outcome = "bad_body" -> AIError(<<"AI service error: ", "'choices'">>)

\* positions of a character in a text
Positions(s, c) == {i \in 1..Len(s) : s[i] = c}

Min(S) == CHOOSE x \in S : \A y \in S : x <= y

Max(S) == CHOOSE x \in S : \A y \in S : x >= y

\* re.search(r'\{.*\}', content, re.DOTALL): leftmost "{", greedy to the last "}"
JsonMatch(content) ==
    LET opens  == Positions(content, "{")
        closes == Positions(content, "}")
    IN  IF opens # {} /\ closes # {} /\ Max(closes) > Min(opens)
        THEN [found |-> TRUE, group |-> SubSeq(content, Min(opens), Max(closes))]
        ELSE [found |-> FALSE, group |-> << >>]

\* the value _do_call returns for a well-formed response body
DoCallReturn(content, json_out) ==
    IF json_out /\ JsonMatch(content).found THEN JsonMatch(content).group
    ELSE content

\* json.loads accepts the text (over Chars: a number, or the empty object)
JsonLoads(text) ==
    \/ text = <<"{", "}">>
    \/ Len(text) > 0 /\ \A i \in 1..Len(text) : text[i] = "1"

\* variant: the aggregated error names the fallback cause only
AggregateErrorFallbackOnly(e, fe) ==
    AIError(<<"AI service completely unavailable (Fallback: ">> \o fe.message \o <<")">>)

\* the error call_model raises when primary and fallback both failed
AggregateError(e, fe) ==
    AIError(<<"AI service completely unavailable (Primary: ">> \o e.message
            \o <<", Fallback: ">> \o fe.message \o <<")">>)

\* variant: analyze_text hands the text on without decoding it
DeliverUndecoded(ent, text) ==
    IF ent = "analyze_text" THEN JsonResult(text) ELSE TextResult(text)

\* what the entry point hands to its caller once call_model returned text
Deliver(ent, text) ==
    IF ent = "analyze_text"
    THEN IF JsonLoads(text) THEN JsonResult(text)
         ELSE ErrResult(AIError(<<"Failed to parse AI response.">>))
    ELSE TextResult(text)

\* variant: the kill switch is not looked at
GuardsIgnoreSwitch(ks, key) ==
    IF ~key THEN AIError(<<"AI service configuration error.">>)
    ELSE NoExc

\* variant: the credential is checked before the kill switch
GuardsCredentialFirst(ks, key) ==
    IF ~key THEN AIError(<<"AI service configuration error.">>)
    ELSE IF ks THEN AIKillSwitchError
    ELSE NoExc

\* the guards of call_model, in source order; NoExc when both pass
Guards(ks, key) ==
    IF ks THEN AIKillSwitchError
    ELSE IF ~key THEN AIError(<<"AI service configuration error.">>)
    ELSE NoExc

\* how one _log_governance call ends: the entry is committed, the lookup or
\* the construction of the entry raises, or db.commit() raises
GovOutcomes == {"ok", "setup_error", "commit_error"}

\* what the caller's uncommitted changes in the session become when the
\* request starts: there are some whenever a session is passed
CallerTx(session) == IF session THEN "pending" ELSE "none"

\* what _log_governance does to the caller's uncommitted changes: its
\* db.commit() commits them with the entry, its db.rollback() after a failed
\* commit discards them
GovernanceEffect(tx, g) ==
    CASE g = "ok" -> IF tx = "pending" THEN "committed" ELSE tx
      [] g = "setup_error" -> tx
      [] g = "commit_error" -> IF tx = "pending" THEN "rolled_back" ELSE tx

\* call_model / analyze_text entered: the two guards, then the primary model
CallModel ==
    /\ pc = "idle"
    /\ \E ent \in {"call_model", "analyze_text"}, jo \in BOOLEAN :
        /\ ent = "analyze_text" => jo
        /\ entry' = ent
        /\ json_output' = jo
        /\ IF Guards(kill_switch, api_key) # NoExc
           THEN /\ pc' = "done"
                /\ result' = ErrResult(Guards(kill_switch, api_key))
                /\ raised' = raised + 1
           ELSE /\ pc' = "primary"
                /\ result' = NoResult
                /\ raised' = raised
    /\ attempt_number' = 0
    /\ http' = [endpoint |-> "none", cause |-> "", status |-> 0]
    /\ UNCHANGED <<kill_switch, api_key, attempts, primary_exc, db_session, gov,
                   caller_tx, taskvars, trustvars, leavevars, workervars>>

\* one attempt of _do_call(settings.ai.model_name) under the retry decorator
PrimaryAttempt ==
    /\ pc = "primary"
    /\ \E outcome \in Outcomes, content \in Contents :
        /\ outcome # "ok" => content = << >>
        /\ attempts' = Append(attempts, [model |-> "primary", outcome |-> outcome,
                                       content |-> content])
        /\ IF outcome = "ok"
           THEN /\ pc' = "done"
                /\ result' = Deliver(entry, DoCallReturn(content, json_output))
                /\ raised' = raised + (IF result'.kind = "error" THEN 1 ELSE 0)
                /\ attempt_number' = 0
                /\ IF db_session
                   THEN \E g \in GovOutcomes :
                          /\ gov' = Append(gov, [model |-> "primary", outcome |-> g])
                          /\ caller_tx' = GovernanceEffect(caller_tx, g)
                   ELSE UNCHANGED <<gov, caller_tx>>
                /\ UNCHANGED primary_exc
           ELSE IF RetryIfExceptionType(MapException(outcome))
                   /\ attempt_number + 1 < StopAfterAttempt
           THEN /\ attempt_number' = attempt_number + 1
                /\ UNCHANGED <<pc, result, raised, primary_exc, gov, caller_tx>>
           ELSE /\ pc' = "fallback"
                /\ primary_exc' = MapException(outcome)
                /\ attempt_number' = 0
                /\ UNCHANGED <<result, raised, gov, caller_tx>>
    /\ UNCHANGED <<kill_switch, api_key, entry, json_output, db_session, http,
                   taskvars, trustvars, leavevars, workervars>>

\* one attempt of _do_call(settings.ai_fallback_model) under the same decorator
FallbackAttempt ==
    /\ pc = "fallback"
    /\ \E outcome \in Outcomes, content \in Contents :
        /\ outcome # "ok" => content = << >>
        /\ attempts' = Append(attempts, [model |-> "fallback", outcome |-> outcome,
                                       content |-> content])
        /\ IF outcome = "ok"
           THEN /\ pc' = "done"
                /\ result' = Deliver(entry, DoCallReturn(content, json_output))
                /\ raised' = raised + (IF result'.kind = "error" THEN 1 ELSE 0)
                /\ attempt_number' = 0
           ELSE IF RetryIfExceptionType(MapException(outcome))
                   /\ attempt_number + 1 < StopAfterAttempt
           THEN /\ attempt_number' = attempt_number + 1
                /\ UNCHANGED <<pc, result, raised>>
           ELSE /\ pc' = "done"
                /\ result' = ErrResult(AggregateError(primary_exc, MapException(outcome)))
                /\ raised' = raised + 1
                /\ attempt_number' = 0
    /\ UNCHANGED <<kill_switch, api_key, entry, json_output, primary_exc,
                   db_session, gov, caller_tx, http, taskvars, trustvars, leavevars, workervars>>

\* an operator turns settings.ai.kill_switch on or off while the service runs
SetKillSwitch ==
    /\ kill_switch' = ~kill_switch
    /\ UNCHANGED <<api_key, pc, entry, json_output, attempt_number, attempts,
                   primary_exc, result, raised, db_session, gov, caller_tx,
                   http, taskvars, trustvars, leavevars, workervars>>

\* the caller has its answer; the next request starts from a clean slate
NextRequest ==
    /\ pc = "done"
    /\ pc' = "idle"
    /\ entry' = "call_model"
    /\ json_output' = TRUE
    /\ attempt_number' = 0
    /\ attempts' = << >>
    /\ primary_exc' = NoExc
    /\ result' = NoResult
    /\ raised' = 0
    /\ gov' = << >>
    /\ caller_tx' = CallerTx(db_session)
    /\ http' = [endpoint |-> "none", cause |-> "", status |-> 0]
    /\ UNCHANGED <<kill_switch, api_key, db_session, taskvars, trustvars, leavevars, workervars>>

NoHttp == [endpoint |-> "none", cause |-> "", status |-> 0]

\* why the AI call behind an endpoint failed; "" when it did not fail
Cause(exc) ==
    IF exc.cls = "AIKillSwitchError" THEN "kill_switch"
    ELSE IF exc.message = <<"AI service configuration error.">>
            \/ exc.cls = "ValueError" THEN "configuration"
    ELSE IF exc.cls = "AIError" /\ Len(exc.message) > 0
            /\ exc.message[1] = "AI service completely unavailable (Primary: "
         THEN "aggregate"
    ELSE IF exc.cls = "" THEN ""
    ELSE "other"

\* call_openrouter: the credential check and one requests.post, no kill
\* switch, no retry, no fallback
CallOpenrouter(key, outcome) ==
    IF ~key THEN [cls |-> "ValueError",
                  message |-> <<"OPENROUTER_API_KEY is not configured. Set it in the environment.">>]
    ELSE IF outcome = "ok" THEN NoExc
    ELSE [cls |-> "RequestException", message |-> <<outcome>>]

\* AppException handler of main.py: the status_code of the exception
AppExceptionHandler(exc) ==
    IF exc.cls \in {"AIError", "AIKillSwitchError"} THEN 503 ELSE 500

\* what the endpoint answers when its AI call ended with exc (NoExc: with text).
\* ask_question turns every exception into HTTPException(500);
\* generate_rag_answer behind query_document and WellbeingService behind
\* analyze_employee_risk catch every exception and return a default answer.
EndpointStatus(endpoint, exc) ==
    CASE endpoint = "helpdesk_ask" -> IF exc = NoExc THEN 200 ELSE 500
      [] endpoint = "document_query" -> 200
      [] endpoint = "risk_analyze" -> 200

\* POST helpdesk ask / POST documents query: the AI call goes to
\* call_openrouter, not to the gateway
DirectEndpoint ==
    /\ pc = "idle"
    /\ \E endpoint \in {"helpdesk_ask", "document_query"}, outcome \in Outcomes :
         http' = [endpoint |-> endpoint,
                  cause |-> Cause(CallOpenrouter(api_key, outcome)),
                  status |-> EndpointStatus(endpoint, CallOpenrouter(api_key, outcome))]
    /\ UNCHANGED <<kill_switch, api_key, pc, entry, json_output, attempt_number,
                   attempts, primary_exc, result, raised, db_session, gov,
                   caller_tx, taskvars, trustvars, leavevars, workervars>>

\* POST risk analyze: WellbeingService called AIOrchestrator.analyze_text and
\* the gateway request has ended
RiskAnalyze ==
    /\ pc = "done"
    /\ entry = "analyze_text"
    /\ http = NoHttp
    /\ http' = [endpoint |-> "risk_analyze",
                cause |-> Cause([cls |-> result.cls, message |-> result.message]),
                status |-> EndpointStatus("risk_analyze",
                              [cls |-> result.cls, message |-> result.message])]
    /\ UNCHANGED <<kill_switch, api_key, pc, entry, json_output, attempt_number,
                   attempts, primary_exc, result, raised, db_session, gov,
                   caller_tx, taskvars, trustvars, leavevars, workervars>>

----------------------------------------------------------------------------
(* TaskService *)

\* TASK_HANDLERS
TASK_HANDLERS == {"resume_analysis"}

\* task types a producer may ask for
TaskTypes == {"resume_analysis", "bogus"}

\* values a handler returns
Results == {"analysis"}

\* str(e) of the exceptions a handler raises
HandlerErrors == {"Resume or Job not found in database."}

\* str(e) of a failed db.commit()
CommitError == "commit failed"

None == "None"

NoOp == [op |-> "none", id |-> 0, outcome |-> "none"]

\* 1 for a commit that failed, 0 for one that succeeded or was not reached
Failed(commit_ok) == IF commit_ok THEN 0 ELSE 1

\* column defaults of a new Task row
TaskDefaults(maxr) ==
    [retries |-> 0, max_retries |-> maxr, result |-> None, error |-> None]

\* the row enqueue adds
NewTask(task_type, maxr) ==
    [type |-> task_type, status |-> "PENDING"] @@ TaskDefaults(maxr)

\* variant: enqueue accepts every task type
KnownTypeAny(task_type) == task_type \in TASK_HANDLERS \cup {"bogus"}

\* the type check at the top of enqueue
KnownType(task_type) == task_type \in TASK_HANDLERS

\* variant: the dispatch is handed to the background queue twice
AddTaskTwice(queue, task_id) == Append(Append(queue, task_id), task_id)

\* background_tasks.add_task(self.process_task_wrapper, task.id)
AddTask(queue, task_id) == Append(queue, task_id)

\* enqueue(task_type, payload)
Enqueue ==
    /\ Len(tasks) < MaxTasks
    /\ \E task_type \in TaskTypes, commit_ok \in BOOLEAN :
        /\ ~KnownType(task_type) => commit_ok   \* no commit is reached
        /\ faults + Failed(commit_ok) <= MaxFaults
        /\ faults' = faults + Failed(commit_ok)
        /\ IF ~KnownType(task_type)
           THEN /\ last_op' = [op |-> "enqueue", id |-> 0, outcome |-> "ValueError"]
                /\ UNCHANGED <<tasks, scheduled, hist, dbfault>>
           ELSE IF ~commit_ok
           THEN /\ last_op' = [op |-> "enqueue", id |-> 0, outcome |-> CommitError]
                /\ UNCHANGED <<tasks, scheduled, hist, dbfault>>
           ELSE /\ tasks' = Append(tasks, NewTask(task_type, default_max_retries))
                /\ hist' = Append(hist, << >>)
                /\ dbfault' = Append(dbfault, FALSE)
                /\ scheduled' = AddTask(scheduled, Len(tasks) + 1)
                /\ last_op' = [op |-> "enqueue", id |-> Len(tasks) + 1, outcome |-> "returned"]
    /\ UNCHANGED <<running, default_max_retries, gwvars, trustvars, leavevars, workervars>>

\* variant: a task marked PROCESSING is picked up again
DispatchableWhileProcessing(task) == task.status \in {"PENDING", "RETRYING", "PROCESSING"}

\* variant: a FAILED task is picked up again
DispatchableAfterFailure(task) == task.status \in {"PENDING", "RETRYING", "FAILED"}

\* the status re-check at the top of process_task
Dispatchable(task) == task.status \in {"PENDING", "RETRYING"}

\* variant: success wipes the retry count
OnSuccessResetRetries(task, res) ==
    [task EXCEPT !.status = "COMPLETED", !.result = res, !.retries = 0]

\* the success branch of process_task
OnSuccess(task, res) ==
    [task EXCEPT !.status = "COMPLETED", !.result = res]

\* variant: one more retry is granted before FAILED
OnFailureOneMore(task, err) ==
    [task EXCEPT !.error = err,
                 !.retries = task.retries + 1,
                 !.status = IF task.retries + 1 <= task.max_retries
                            THEN "RETRYING" ELSE "FAILED"]

\* the except branch of process_task
OnFailure(task, err) ==
    [task EXCEPT !.error = err,
                 !.retries = task.retries + 1,
                 !.status = IF task.retries + 1 < task.max_retries
                            THEN "RETRYING" ELSE "FAILED"]

\* process_task(db, task_id) up to the handler call: lookup, status re-check,
\* PROCESSING mark, handler lookup.  c1 and c2 say whether the commit of the
\* PROCESSING mark and the commit of the no-handler error succeed.
BeginProcessTask(task_id, c1, c2) ==
    IF task_id > Len(tasks)
    THEN /\ last_op' = [op |-> "process_task", id |-> task_id, outcome |-> "not_found"]
         /\ UNCHANGED <<tasks, dbfault, running>>
    ELSE IF ~Dispatchable(tasks[task_id])
    THEN /\ last_op' = [op |-> "process_task", id |-> task_id, outcome |-> "skipped"]
         /\ UNCHANGED <<tasks, dbfault, running>>
    ELSE IF ~c1
    THEN /\ last_op' = [op |-> "process_task", id |-> task_id, outcome |-> "raised"]
         /\ UNCHANGED <<tasks, dbfault, running>>
    ELSE LET processing == [tasks[task_id] EXCEPT !.status = "PROCESSING"]
         IN  IF processing.type \notin TASK_HANDLERS
             THEN /\ tasks' = [tasks EXCEPT ![task_id] =
                        IF c2
                        THEN [processing EXCEPT !.error = "No handler for type " \o processing.type]
                        ELSE processing]
                  /\ dbfault' = [dbfault EXCEPT ![task_id] = @ \/ ~c2]
                  /\ last_op' = [op |-> "process_task", id |-> task_id,
                                 outcome |-> IF c2 THEN "no_handler" ELSE "raised"]
                  /\ UNCHANGED running
             ELSE /\ tasks' = [tasks EXCEPT ![task_id] = processing]
                  /\ running' = task_id
                  /\ last_op' = [op |-> "process_task", id |-> task_id, outcome |-> "handler"]
                  /\ UNCHANGED dbfault

\* one entry into process_task with every input it can meet; Commit is the set
\* of outcomes a db.commit() may have (TRUE: it succeeds)
BeginAnyInput(task_id, Commit) ==
    \E c1 \in Commit, c2 \in Commit :
        /\ (task_id > Len(tasks) \/ ~Dispatchable(tasks[task_id]))
               => c1                       \* process_task returns before the commit
        /\ (task_id > Len(tasks) \/ tasks[task_id].type \in TASK_HANDLERS)
               => c2                       \* the no-handler commit is not reached
        /\ faults + Failed(c1) + Failed(c2) <= MaxFaults
        /\ faults' = faults + Failed(c1) + Failed(c2)
        /\ BeginProcessTask(task_id, c1, c2)

\* process_task_wrapper: the background run FastAPI starts after the response
ProcessTaskWrapperWith(Commit) ==
    /\ running = 0
    /\ scheduled # << >>
    /\ BeginAnyInput(Head(scheduled), Commit)
    /\ scheduled' = Tail(scheduled)
    /\ UNCHANGED <<hist, default_max_retries, gwvars, trustvars, leavevars, workervars>>

ProcessTaskWrapper == ProcessTaskWrapperWith(BOOLEAN)

\* the same run over a storage whose commits all succeed
ProcessTaskWrapperSound == ProcessTaskWrapperWith({TRUE})

\* process_task called for any id by another caller (a poller, a second run)
Redispatch ==
    /\ running = 0
    /\ \E task_id \in 1..MaxTasks : BeginAnyInput(task_id, BOOLEAN)
    /\ UNCHANGED <<scheduled, hist, default_max_retries, gwvars, trustvars, leavevars, workervars>>

\* process_task from the handler call to its end.  h is what the handler does
\* (a value of Results, or "raise" with message err), c2 and c3 say whether the
\* commit of the try block and the commit of the except block succeed.
FinishProcessTask(h, err, c2, c3) ==
    LET task == tasks[running]
    IN  /\ hist' = [hist EXCEPT ![running] = Append(@, h)]
        /\ IF h # "raise" /\ c2
           THEN /\ tasks' = [tasks EXCEPT ![running] = OnSuccess(task, h)]
                /\ last_op' = [op |-> "process_task", id |-> running, outcome |-> "returned"]
                /\ UNCHANGED dbfault
           ELSE /\ tasks' = [tasks EXCEPT ![running] =
                      IF c3
                      THEN OnFailure(task, IF h # "raise" THEN CommitError ELSE err)
                      ELSE task]
                /\ dbfault' = [dbfault EXCEPT ![running] = @ \/ h # "raise" \/ ~c3]
                /\ last_op' = [op |-> "process_task", id |-> running,
                               outcome |-> IF c3 THEN "returned" ELSE "raised"]

\* the handler returns or raises and process_task runs to its end
HandlerDoneWith(Commit) ==
    /\ running # 0
    /\ \E h \in Results \cup {"raise"}, err \in HandlerErrors,
          c2 \in Commit, c3 \in Commit :
        /\ h = "raise" => c2               \* the try-block commit is not reached
        /\ (h # "raise" /\ c2) => c3       \* the except-block commit is not reached
        /\ faults + Failed(c2) + Failed(c3) <= MaxFaults
        /\ faults' = faults + Failed(c2) + Failed(c3)
        /\ FinishProcessTask(h, err, c2, c3)
    /\ running' = 0
    /\ UNCHANGED <<scheduled, default_max_retries, gwvars, trustvars, leavevars, workervars>>

HandlerDone == HandlerDoneWith(BOOLEAN)

\* the same step over a storage whose commits all succeed
HandlerDoneSound == HandlerDoneWith({TRUE})

----------------------------------------------------------------------------
(* AI trust wrapper and audit ledger                                       *)
(* app/schemas/trust.py, app/services/ai_trust_service.py,                 *)
(* app/services/audit.py, app/database.py                                  *)
(*                                                                         *)
(* Confidence scores are counted in tenths: 8 stands for 0.8.  A value is  *)
(* a record of its Python shape and its payload.                           *)

\* scores a caller can pass, one step outside [0, 1] on each side included
Scores == (0 - 1)..11

ActionTypes == {"rag_query", "resume_screening"}

ModelNames == {"unknown", "gpt-4o"}

\* citation lists a caller can pass
Sources == {<< >>, <<"policy.pdf">>}

NoData == [shape |-> "none", v |-> ""]

ExplicitData == [shape |-> "dict", v |-> "explicit"]

ContentValues ==
    { [shape |-> "str", v |-> "answer"],
      [shape |-> "dict", v |-> "payload"],
      [shape |-> "model", v |-> "payload"],
      [shape |-> "list", v |-> "payload"],
      [shape |-> "other", v |-> "42"] }

Placeholder == [shape |-> "str", v |-> "Structured AI Response"]

DefaultFallbackReason == "Unable to process request."

\* str(content)
Str(content) ==
    IF content.shape = "str" THEN content
    ELSE [shape |-> "str", v |-> content.shape \o ":" \o content.v]

\* content.model_dump() of a pydantic object
ContentDump(content) == [shape |-> "dict", v |-> content.v]

\* the field constraint of TrustMetadata.confidence_score
ValidScore(score) == score >= 0 /\ score <= 10

BandStrict(score) ==
    IF score > 8 THEN "high"
    ELSE IF score >= 5 THEN "medium"
    ELSE "low"

\* the banding of TrustMetadata.from_score
Band(score) ==
    IF score >= 8 THEN "high"
    ELSE IF score >= 5 THEN "medium"
    ELSE "low"

NoTrust ==
    [kind |-> "none", confidence_score |-> 0, confidence_level |-> "low",
     sources |-> << >>,
     ai_model |-> "unknown", requires_human_confirmation |-> FALSE,
     is_fallback |-> FALSE, fallback_reason |-> None]

\* TrustMetadata.from_score, for a score that passes validation
FromScore(score, model, sources, requires_human_confirmation) ==
    [kind |-> "TrustMetadata", confidence_score |-> score,
     confidence_level |-> Band(score), sources |-> sources, ai_model |-> model,
     requires_human_confirmation |-> requires_human_confirmation,
     is_fallback |-> FALSE, fallback_reason |-> None]

\* TrustMetadata.fallback as wrap_and_log calls it; the score passed to
\* wrap_and_log is not used
Fallback(score, reason) ==
    [kind |-> "TrustMetadata", confidence_score |-> 0,
     confidence_level |-> "low", sources |-> << >>, ai_model |-> "unknown",
     requires_human_confirmation |-> FALSE,
     is_fallback |-> TRUE, fallback_reason |-> reason]

\* trust_metadata.model_dump(): the same fields as a plain dict
ModelDump(trust) == [trust EXCEPT !.kind = "dict"]

\* step 1 of wrap_and_log
TrustOf(args) ==
    IF args.is_fallback
    THEN Fallback(args.confidence_score, DefaultFallbackReason)
    ELSE FromScore(args.confidence_score, args.model_name, args.sources,
                   args.requires_human_confirmation)

\* step 1 raises pydantic's ValidationError
TrustRaises(args) == ~args.is_fallback /\ ~ValidScore(args.confidence_score)

NoState == {}

\* after_state = {"trust_metadata": trust_metadata.model_dump()}
AfterState(trust) == {[key |-> "trust_metadata", value |-> ModelDump(trust)]}

AuditArgsNotRecommended(args, trust) ==
    [action |-> args.action_type, ai_recommended |-> FALSE,
     after_state |-> AfterState(trust)]

\* the arguments wrap_and_log passes to log_action
AuditArgs(args, trust) ==
    [action |-> args.action_type, ai_recommended |-> TRUE,
     after_state |-> AfterState(trust)]

\* a caller's own log_action call: ai_recommended and after_state defaulted
DirectArgs(action) ==
    [action |-> action, ai_recommended |-> FALSE, after_state |-> NoState]

\* the timestamp column of a new row: the time of the insert
TimestampDefault(t) == t

\* AuditLog(...) as flush leaves it: the arguments, the generated key and the
\* timestamp
AuditLog(a, id, t) ==
    [id |-> id, action |-> a.action, ai_recommended |-> a.ai_recommended,
     after_state |-> a.after_state, timestamp |-> TimestampDefault(t)]

SameArgs(e, a) ==
    /\ e.action = a.action
    /\ e.ai_recommended = a.ai_recommended
    /\ e.after_state = a.after_state

AddUpsert(rows, db_log) ==
    IF \E i \in 1..Len(rows) : SameArgs(rows[i], db_log)
    THEN [i \in 1..Len(rows) |->
             IF SameArgs(rows[i], db_log) THEN db_log ELSE rows[i]]
    ELSE Append(rows, db_log)

\* self.db.add(db_log); self.db.flush()
Add(rows, db_log) == Append(rows, db_log)

\* how the environment lets one audit write end
AuditOutcomes == {"ok", "serialization_error", "flush_error"}

FailedToAuditLog == "FAILED TO AUDIT LOG"

CriticalAuditFailure == "CRITICAL: Failed to audit AI action"

\* log_action catches every exception of its body
LogActionRaises(o) == FALSE

\* the DiagnosticEvents of one log_action call
LogActionDiag(o) == IF o = "ok" THEN {} ELSE {FailedToAuditLog}

\* The effect of one log_action call on the session.  A flush needs a usable
\* transaction.  A failed flush rolls the transaction back: what was flushed
\* or pending in it is gone and the session refuses further work until the
\* caller rolls it back.  A failure before db.add leaves the session as it was.
LogActionEffect(a, o) ==
    /\ n_log < MaxLogCalls
    /\ o = "ok" => sess_active
    /\ n_log' = n_log + 1
    /\ audit_db' = audit_db
    /\ CASE o = "ok" ->
              /\ sess_audit' = Add(sess_audit, AuditLog(a, next_audit_id, now))
              /\ next_audit_id' = next_audit_id + 1
              /\ UNCHANGED <<sess_active, sess_business>>
         [] o = "serialization_error" ->
              UNCHANGED <<sess_audit, next_audit_id, sess_active, sess_business>>
         [] o = "flush_error" ->
              /\ sess_audit' = << >>
              /\ sess_active' = FALSE
              /\ sess_business' = IF sess_business = "pending" THEN "lost"
                                  ELSE sess_business
              /\ UNCHANGED next_audit_id

NoResponse ==
    [outcome |-> "none", content |-> Str(NoData), data |-> NoData,
     trust |-> NoTrust]

ShapePromoteLists(content, data) ==
    IF data = NoData
    THEN IF content.shape = "str" THEN [content |-> content, data |-> NoData]
         ELSE IF content.shape = "model"
              THEN [content |-> Placeholder, data |-> ContentDump(content)]
         ELSE IF content.shape \in {"dict", "list"}
              THEN [content |-> Placeholder, data |-> content]
         ELSE [content |-> Str(content), data |-> NoData]
    ELSE [content |-> Str(content), data |-> data]

\* step 4 of wrap_and_log: response_content and response_data
Shape(content, data) ==
    IF data = NoData
    THEN IF content.shape = "str" THEN [content |-> content, data |-> NoData]
         ELSE IF content.shape = "model"
              THEN [content |-> Placeholder, data |-> ContentDump(content)]
         ELSE IF content.shape = "dict"
              THEN [content |-> Placeholder, data |-> content]
         ELSE [content |-> Str(content), data |-> NoData]
    ELSE [content |-> Str(content), data |-> data]

\* TrustedAIResponse(content, trust, data)
TrustedAIResponse(args, trust) ==
    [outcome |-> "returned", content |-> Shape(args.content, args.data).content,
     data |-> Shape(args.content, args.data).data, trust |-> trust]

WrapArgs ==
    [content : ContentValues, data : {NoData, ExplicitData},
     confidence_score : Scores, is_fallback : BOOLEAN,
     requires_human_confirmation : BOOLEAN, model_name : ModelNames,
     sources : Sources, action_type : ActionTypes]

\* AITrustService.wrap_and_log
WrapAndLog ==
    \E o \in AuditOutcomes :
        IF TrustRaises(wargs)
        THEN /\ o = "ok"
             /\ response' = [NoResponse EXCEPT !.outcome = "ValidationError"]
             /\ diag' = {}
             /\ trust_op' = [op |-> "wrap_and_log", outcome |-> "ValidationError",
                             audit |-> "none"]
             /\ UNCHANGED <<wargs, sess_active, sess_business, sess_audit,
                            audit_db, next_audit_id, n_log, gwvars, taskvars, now, retention_days, leavevars, workervars>>
        ELSE /\ LogActionEffect(AuditArgs(wargs, TrustOf(wargs)), o)
             /\ response' = TrustedAIResponse(wargs, TrustOf(wargs))
             /\ diag' = LogActionDiag(o)
                          \cup (IF LogActionRaises(o) THEN {CriticalAuditFailure}
                                ELSE {})
             /\ trust_op' = [op |-> "wrap_and_log", outcome |-> "returned",
                             audit |-> o]
             /\ UNCHANGED <<wargs, gwvars, taskvars, now, retention_days, leavevars, workervars>>

\* AuditService.log_action called by a router or a service of its own
LogAction ==
    \E action \in ActionTypes, o \in AuditOutcomes :
        /\ LogActionEffect(DirectArgs(action), o)
        /\ diag' = LogActionDiag(o)
        /\ trust_op' = [op |-> "log_action",
                        outcome |-> IF LogActionRaises(o) THEN "raised"
                                    ELSE "returned",
                        audit |-> o]
        /\ UNCHANGED <<wargs, response, gwvars, taskvars, now, retention_days, leavevars, workervars>>

\* the caller's own db.add(...) in the request's session
BusinessChange ==
    /\ sess_business = "none"
    /\ sess_business' = "pending"
    /\ trust_op' = [op |-> "business_change", outcome |-> "returned",
                    audit |-> "none"]
    /\ UNCHANGED <<wargs, sess_active, sess_audit, audit_db, next_audit_id,
                   n_log, response, diag, gwvars, taskvars, now, retention_days, leavevars, workervars>>

\* the caller's db.commit()
SessionCommit ==
    /\ IF sess_active
       THEN /\ audit_db' = audit_db \o sess_audit
            /\ sess_audit' = << >>
            /\ sess_business' = IF sess_business = "pending" THEN "committed"
                                ELSE sess_business
            /\ trust_op' = [op |-> "commit", outcome |-> "returned",
                            audit |-> "none"]
       ELSE /\ trust_op' = [op |-> "commit", outcome |-> "raised",
                            audit |-> "none"]
            /\ UNCHANGED <<audit_db, sess_audit, sess_business>>
    /\ UNCHANGED <<wargs, sess_active, next_audit_id, n_log, response, diag,
                   gwvars, taskvars, now, retention_days, leavevars, workervars>>

\* get_db's finally: db.close() when the request ends; the next request
\* gets a new session
SessionClose ==
    /\ sess_active' = TRUE
    /\ sess_audit' = << >>
    /\ sess_business' = "none"
    /\ trust_op' = [op |-> "close", outcome |-> "returned", audit |-> "none"]
    /\ UNCHANGED <<wargs, audit_db, next_audit_id, n_log, response, diag,
                   gwvars, taskvars, now, retention_days, leavevars, workervars>>

\* retention_days values the purge is called with
RetentionDays == {0, 1}

ExpiredInclusive(row, cutoff_date) == row.timestamp <= cutoff_date

\* the filter of the purge: AuditLog.timestamp < cutoff_date
Expired(row, cutoff_date) == row.timestamp < cutoff_date

\* the rows the bulk delete leaves
Kept(rows, cutoff_date) ==
    SelectSeq(rows, LAMBDA row : ~Expired(row, cutoff_date))

\* ComplianceService.enforce_data_retention(db, retention_days), called by a
\* maintenance job with a session of its own; ok says whether the deletes and
\* the commit succeed (otherwise: rollback and re-raise)
EnforceDataRetention ==
    \E days \in RetentionDays, ok \in BOOLEAN :
        LET cutoff_date == now - days
        IN  /\ retention_days' = days
            /\ IF ok
               THEN /\ audit_db' = Kept(audit_db, cutoff_date)
                    /\ trust_op' = [op |-> "enforce_data_retention",
                                    outcome |-> "returned",
                                    audit |-> IF Kept(audit_db, cutoff_date) = audit_db
                                              THEN "none" ELSE "purged"]
               ELSE /\ audit_db' = audit_db
                    /\ trust_op' = [op |-> "enforce_data_retention",
                                    outcome |-> "raised", audit |-> "none"]
            /\ UNCHANGED <<wargs, sess_active, sess_business, sess_audit,
                           next_audit_id, n_log, response, diag, now, gwvars,
                           taskvars, leavevars, workervars>>

\* a day passes
Tick ==
    /\ now < MaxDays
    /\ now' = now + 1
    /\ UNCHANGED <<wargs, sess_active, sess_business, sess_audit, audit_db,
                   next_audit_id, n_log, response, diag, trust_op,
                   retention_days, gwvars, taskvars, leavevars, workervars>>

----------------------------------------------------------------------------
(* Leave requests: routers/leave.py and routers/leave_manager.py *)

\* LeaveStatus values
LeaveStatus == {"pending", "approved", "rejected"}

\* values of LeaveRequest.required_levels; 0 stands for an unset column
\* (None and 0 are both falsy at leave_manager.py line 52)
RequiredLevels == 0..MaxLevels

\* decisions auto_approve_decision can return
Decisions == {"auto_approved", "pending_approval"}

NoLeaveOp == [op |-> "none", id |-> 0, status_code |-> 0]

LeaveOp(op, id, status_code) == [op |-> op, id |-> id, status_code |-> status_code]

\* required = leave.required_levels if leave.required_levels else 1
Required(leave) == IF leave.required_levels # 0 THEN leave.required_levels ELSE 1

\* the approve branch of approve_leave: one more level, APPROVED at the last
ApproveBranch(leave) ==
    LET current_level == leave.approval_level
        required == Required(leave)
        next_level == current_level + 1
    IN  [leave EXCEPT !.approval_level = next_level,
                      !.status = IF next_level < required THEN "pending"
                                 ELSE "approved"]

\* the reject branch of approve_leave
RejectBranch(leave) == [leave EXCEPT !.status = "rejected"]

\* POST /request: submit_leave_request
SubmitLeaveRequest ==
    \E eligible \in BOOLEAN, decision \in Decisions, required \in RequiredLevels :
        /\ Len(leaves) < MaxLeaves
        /\ IF ~eligible
           THEN /\ leave_op' = LeaveOp("submit", 0, 400)
                /\ UNCHANGED <<leaves, approvals>>
           ELSE /\ leaves' = Append(leaves,
                      [status |-> IF decision = "auto_approved" THEN "approved"
                                  ELSE "pending",
                       approval_level |-> 0,
                       required_levels |-> required])
                /\ approvals' = Append(approvals, 0)
                /\ leave_op' = LeaveOp("submit", Len(leaves) + 1, 200)
        /\ UNCHANGED <<gwvars, taskvars, trustvars, workervars>>

\* POST /leave/approve: approve_leave
ApproveLeave ==
    \E request_id \in 1..MaxLeaves, approve \in BOOLEAN, commit_ok \in BOOLEAN :
        LET op == IF approve THEN "approve" ELSE "reject" IN
        /\ IF request_id > Len(leaves)
           THEN /\ leave_op' = LeaveOp(op, request_id, 404)
                /\ UNCHANGED <<leaves, approvals>>
           ELSE IF leaves[request_id].status # "pending"
           THEN /\ leave_op' = LeaveOp(op, request_id, 400)
                /\ UNCHANGED <<leaves, approvals>>
           ELSE IF ~commit_ok
           THEN /\ leave_op' = LeaveOp(op, request_id, 500)
                /\ UNCHANGED <<leaves, approvals>>
           ELSE /\ leaves' = [leaves EXCEPT ![request_id] =
                                 IF approve THEN ApproveBranch(@)
                                 ELSE RejectBranch(@)]
                /\ approvals' = [approvals EXCEPT ![request_id] =
                                    IF approve THEN @ + 1 ELSE @]
                /\ leave_op' = LeaveOp(op, request_id, 200)
        /\ UNCHANGED <<gwvars, taskvars, trustvars, workervars>>

\* PUT /requests/{id}/approve: approve_request
ApproveRequest ==
    \E id \in 1..MaxLeaves, balance_ok \in BOOLEAN :
        /\ id <= Len(leaves) => approvals[id] < MaxApprovals
        /\ IF id > Len(leaves)
           THEN /\ leave_op' = LeaveOp("approve", id, 404)
                /\ UNCHANGED <<leaves, approvals>>
           ELSE IF leaves[id].status = "approved"
           THEN /\ leave_op' = LeaveOp("approve", id, 200)
                /\ UNCHANGED <<leaves, approvals>>
           ELSE IF ~balance_ok
           THEN /\ leave_op' = LeaveOp("approve", id, 400)
                /\ UNCHANGED <<leaves, approvals>>
           ELSE /\ leaves' = [leaves EXCEPT ![id].status = "approved"]
                /\ approvals' = [approvals EXCEPT ![id] = @ + 1]
                /\ leave_op' = LeaveOp("approve", id, 200)
        /\ UNCHANGED <<gwvars, taskvars, trustvars, workervars>>

\* PUT /requests/{id}/reject: reject_request
RejectRequest ==
    \E id \in 1..MaxLeaves :
        /\ IF id > Len(leaves)
           THEN /\ leave_op' = LeaveOp("reject", id, 404)
                /\ UNCHANGED <<leaves, approvals>>
           ELSE /\ leaves' = [leaves EXCEPT ![id].status = "rejected"]
                /\ approvals' = approvals
                /\ leave_op' = LeaveOp("reject", id, 200)
        /\ UNCHANGED <<gwvars, taskvars, trustvars, workervars>>

----------------------------------------------------------------------------
(* Two workers dispatched on one task id: services/task_service.py *)

\* threads of the pool that run process_task_wrapper
Workers == {1, 2}

\* a worker that is not inside process_task
Idle(task) == [pc |-> "idle", task |-> task]

\* the UPDATE a commit emits: the attributes that differ from what the
\* session loaded are written, the others keep what the table holds
Flush(stored, loaded, new) ==
    [f \in DOMAIN stored |-> IF new[f] # loaded[f] THEN new[f] ELSE stored[f]]

\* process_task_wrapper(task_id) is started on a worker
WorkerDispatch(w) ==
    /\ workers[w].pc = "idle"
    /\ dispatches < MaxDispatches
    /\ dispatches' = dispatches + 1
    /\ workers' = [workers EXCEPT ![w].pc = "query"]
    /\ UNCHANGED <<shared, invoked, gwvars, taskvars, trustvars, leavevars>>

\* the lookup and the status re-check of process_task
WorkerCheck(w) ==
    /\ workers[w].pc = "query"
    /\ workers' = [workers EXCEPT ![w] =
                      IF Dispatchable(shared)
                      THEN [pc |-> "checked", task |-> shared]
                      ELSE Idle(shared)]
    /\ UNCHANGED <<shared, invoked, dispatches, gwvars, taskvars, trustvars,
                   leavevars>>

\* the PROCESSING mark, its commit, the handler lookup and the handler call
WorkerMark(w) ==
    /\ workers[w].pc = "checked"
    /\ LET loaded == workers[w].task
           stored == Flush(shared, loaded, [loaded EXCEPT !.status = "PROCESSING"])
       IN  /\ shared' = stored
           /\ workers' = [workers EXCEPT ![w] = [pc |-> "handler", task |-> stored]]
           /\ invoked' = invoked \cup {<<stored.retries, w>>}
    /\ UNCHANGED <<dispatches, gwvars, taskvars, trustvars, leavevars>>

\* the handler returns or raises, and process_task commits what follows
WorkerFinish(w) ==
    /\ workers[w].pc = "handler"
    /\ \E ok \in BOOLEAN, res \in Results, err \in HandlerErrors :
        LET loaded == workers[w].task
            new == IF ok THEN OnSuccess(loaded, res) ELSE OnFailure(loaded, err)
            stored == Flush(shared, loaded, new)
        IN  /\ shared' = stored
            /\ workers' = [workers EXCEPT ![w] = Idle(stored)]
    /\ UNCHANGED <<invoked, dispatches, gwvars, taskvars, trustvars, leavevars>>

----------------------------------------------------------------------------
(* Initial state *)

InitGateway ==
    /\ kill_switch \in BOOLEAN
    /\ api_key \in BOOLEAN
    /\ pc = "idle"
    /\ entry = "call_model"
    /\ json_output = TRUE
    /\ attempt_number = 0
    /\ attempts = << >>
    /\ primary_exc = NoExc
    /\ result = NoResult
    /\ raised = 0
    /\ db_session \in BOOLEAN
    /\ gov = << >>
    /\ caller_tx = CallerTx(db_session)
    /\ http = NoHttp

InitTask ==
    /\ tasks = << >>
    /\ scheduled = << >>
    /\ hist = << >>
    /\ dbfault = << >>
    /\ last_op = NoOp
    /\ running = 0
    /\ faults = 0
    /\ default_max_retries \in 0..MaxRetriesBound

\* the arguments of a plain call
DefaultWrapArgs ==
    [content |-> [shape |-> "str", v |-> "answer"], data |-> NoData,
     confidence_score |-> 0, is_fallback |-> FALSE,
     requires_human_confirmation |-> FALSE, model_name |-> "unknown",
     sources |-> << >>, action_type |-> "rag_query"]

InitTrust ==
    /\ wargs \in WrapArgs
    /\ sess_active = TRUE
    /\ sess_business = "none"
    /\ sess_audit = << >>
    /\ audit_db = << >>
    /\ next_audit_id = 1
    /\ n_log = 0
    /\ response = NoResponse
    /\ diag = {}
    /\ trust_op = [op |-> "none", outcome |-> "none", audit |-> "none"]
    /\ now = 0
    /\ retention_days = 0

InitLeave ==
    /\ leaves = << >>
    /\ approvals = << >>
    /\ leave_op = NoLeaveOp

InitWorkers ==
    /\ shared \in {NewTask("resume_analysis", maxr) : maxr \in 1..MaxRetriesBound}
    /\ workers = [w \in Workers |-> Idle(shared)]
    /\ invoked = {}
    /\ dispatches = 0

Init == InitGateway /\ InitTask /\ InitTrust /\ InitLeave /\ InitWorkers

\* the gateway on its own: no task is ever created, no response wrapped
InitGatewayOnly ==
    Init /\ default_max_retries = 0 /\ wargs = DefaultWrapArgs /\ ~db_session
         /\ shared.max_retries = 1

\* the task executor on its own: one fixed gateway configuration
InitTaskOnly ==
    Init /\ ~kill_switch /\ api_key /\ wargs = DefaultWrapArgs /\ ~db_session
         /\ shared.max_retries = 1

\* the trust wrapper and the audit ledger on their own
InitTrustOnly ==
    Init /\ ~kill_switch /\ api_key /\ default_max_retries = 0 /\ ~db_session
         /\ shared.max_retries = 1

NextGateway ==
    \/ CallModel
    \/ PrimaryAttempt
    \/ FallbackAttempt
    \/ NextRequest

SpecGateway == InitGatewayOnly /\ [][NextGateway]_vars

\* the gateway called with a db_session, both guards passing
InitGovernanceOnly ==
    /\ Init
    /\ ~kill_switch /\ api_key /\ db_session
    /\ default_max_retries = 0 /\ wargs = DefaultWrapArgs

SpecGovernance == InitGovernanceOnly /\ [][NextGateway]_vars

\* the synchronous AI endpoints over the gateway and over call_openrouter
NextEndpoint ==
    \/ CallModel
    \/ PrimaryAttempt
    \/ FallbackAttempt
    \/ NextRequest
    \/ DirectEndpoint
    \/ RiskAnalyze

SpecEndpoint == InitGatewayOnly /\ [][NextEndpoint]_vars

\* the gateway while the kill switch is turned on and off
NextKillSwitch ==
    \/ CallModel
    \/ PrimaryAttempt
    \/ FallbackAttempt
    \/ NextRequest
    \/ SetKillSwitch

SpecKillSwitch == InitGatewayOnly /\ [][NextKillSwitch]_vars

NextTask ==
    \/ Enqueue
    \/ ProcessTaskWrapper
    \/ Redispatch
    \/ HandlerDone

SpecTask == InitTaskOnly /\ [][NextTask]_vars

\* the scheduling the code has: enqueue, and the one background run per enqueue
\* and with the environment at its kindest: no commit of a dispatch fails
NextTaskLive ==
    \/ Enqueue
    \/ ProcessTaskWrapperSound
    \/ HandlerDoneSound

\* every scheduled background run starts, and every handler call ends
SpecTaskLive ==
    /\ InitTaskOnly
    /\ [][NextTaskLive]_vars
    /\ WF_vars(ProcessTaskWrapperSound)
    /\ WF_vars(HandlerDoneSound)

NextTrust ==
    \/ WrapAndLog
    \/ LogAction
    \/ BusinessChange
    \/ SessionCommit
    \/ SessionClose

SpecTrust == InitTrustOnly /\ [][NextTrust]_vars

\* the ledger with the clock and the retention purge, for one plain wrap call
InitRetentionOnly == InitTrustOnly /\ wargs = DefaultWrapArgs

NextRetention ==
    \/ WrapAndLog
    \/ LogAction
    \/ BusinessChange
    \/ SessionCommit
    \/ SessionClose
    \/ EnforceDataRetention
    \/ Tick

SpecRetention == InitRetentionOnly /\ [][NextRetention]_vars

\* the leave endpoints on their own
InitLeaveOnly == InitGatewayOnly /\ ~kill_switch /\ api_key

NextLeave ==
    \/ SubmitLeaveRequest
    \/ ApproveLeave
    \/ ApproveRequest
    \/ RejectRequest

SpecLeave == InitLeaveOnly /\ [][NextLeave]_vars

\* two workers on one task, for every max_retries of the task
InitWorkersOnly ==
    Init /\ ~kill_switch /\ api_key /\ default_max_retries = 0
         /\ wargs = DefaultWrapArgs /\ ~db_session

NextWorkers ==
    \E w \in Workers :
        \/ WorkerDispatch(w)
        \/ WorkerCheck(w)
        \/ WorkerMark(w)
        \/ WorkerFinish(w)

SpecWorkers == InitWorkersOnly /\ [][NextWorkers]_vars

----------------------------------------------------------------------------
(* Properties of the gateway *)

PrimaryLog == SelectSeq(attempts, LAMBDA a : a.model = "primary")

FallbackLog == SelectSeq(attempts, LAMBDA a : a.model = "fallback")

LastAttempt == attempts[Len(attempts)]

\* the request ended right after a successful network attempt
EndedOnSuccess == pc = "done" /\ attempts # << >> /\ LastAttempt.outcome = "ok"

\* the request ended after the last network attempt failed
EndedOnFailure == pc = "done" /\ attempts # << >> /\ LastAttempt.outcome # "ok"

\* part occurs in msg as a contiguous run
Contains(msg, part) ==
    \E i \in 1..(Len(msg) - Len(part) + 1) : SubSeq(msg, i, i + Len(part) - 1) = part

\* number of attempts against the model of attempt i, up to and including i
AttemptsSoFar(i) ==
    Cardinality({j \in 1..i : attempts[j].model = attempts[i].model})

\* the text is a JSON object (over Chars: the empty object)
IsJsonObject(text) == JsonLoads(text) /\ Len(text) > 0 /\ text[1] = "{"

ParseFailure == ErrResult(AIError(<<"Failed to parse AI response.">>))

\* C1: a request entered with the kill switch on ends at once with the
\* kill-switch error and an empty network log, also when the credential is
\* missing too; entered with the switch off and no credential it ends at once
\* with the configuration error and an empty network log.
C1_GuardsFailFast ==
    [][(pc = "idle" /\ pc' # "idle") =>
         /\ kill_switch =>
              /\ pc' = "done"
              /\ result' = ErrResult(AIKillSwitchError)
              /\ raised' = 1
              /\ attempts' = << >>
         /\ (~kill_switch /\ ~api_key) =>
              /\ pc' = "done"
              /\ result' = ErrResult(AIError(<<"AI service configuration error.">>))
              /\ raised' = 1
              /\ attempts' = << >>]_vars

C1_Witness ==
    /\ pc = "done"
    /\ kill_switch
    /\ ~api_key
    /\ result.cls = "AIKillSwitchError"
    /\ attempts = << >>

\* C2 as stated: one request makes at most 3 primary attempts and at most one
\* fallback attempt.
C2_OneFallbackAttempt ==
    Len(PrimaryLog) <= 3 /\ Len(FallbackLog) <= 1

\* C2 amended: the fallback model has the same retry budget as the primary one.
\* One request makes at most 3 primary and at most 3 fallback attempts, the
\* fallback attempts come after 3 failed primary attempts, and a request that
\* ends on a failed fallback attempt has made 3 of them.
C2_FallbackRetried ==
    /\ Len(PrimaryLog) <= 3
    /\ Len(FallbackLog) <= 3
    /\ FallbackLog # << >> =>
         /\ Len(PrimaryLog) = 3
         /\ \A i \in 1..3 : attempts[i].model = "primary" /\ attempts[i].outcome # "ok"
    /\ (EndedOnFailure /\ LastAttempt.model = "fallback") => Len(FallbackLog) = 3

C2_Witness ==
    /\ EndedOnFailure
    /\ Len(PrimaryLog) = 3
    /\ Len(FallbackLog) = 3

\* C3: a request whose primary and fallback attempts all failed raised exactly
\* one error, whose message carries the last primary failure and the last
\* fallback failure, and delivered no text.
C3_AggregateError ==
    EndedOnFailure =>
        /\ result.kind = "error"
        /\ result.cls = "AIError"
        /\ result.value = << >>
        /\ raised = 1
        /\ Contains(result.message,
                    MapException(PrimaryLog[Len(PrimaryLog)].outcome).message)
        /\ Contains(result.message,
                    MapException(FallbackLog[Len(FallbackLog)].outcome).message)

C3_Witness ==
    /\ EndedOnFailure
    /\ PrimaryLog[Len(PrimaryLog)].outcome = "timeout"
    /\ FallbackLog[Len(FallbackLog)].outcome = "http_5xx"
    /\ raised = 1

\* C4: when the fallback model's attempt succeeds, call_model returns the text
\* _do_call produced from the fallback response and raises nothing; every
\* fallback attempt is preceded by exactly 3 failed primary attempts.
C4_FallbackSucceeds ==
    /\ (EndedOnSuccess /\ LastAttempt.model = "fallback" /\ entry = "call_model") =>
         /\ result.kind = "text"
         /\ raised = 0
         /\ ~json_output => result.value = LastAttempt.content
         /\ json_output =>
              result.value = IF JsonMatch(LastAttempt.content).found
                             THEN JsonMatch(LastAttempt.content).group
                             ELSE LastAttempt.content
    /\ \A i \in 1..Len(attempts) :
         attempts[i].model = "fallback" =>
             /\ i > 3
             /\ \A j \in 1..3 : attempts[j].model = "primary" /\ attempts[j].outcome # "ok"

C4_Witness ==
    /\ EndedOnSuccess
    /\ entry = "call_model"
    /\ Len(attempts) = 4
    /\ LastAttempt.model = "fallback"
    /\ result = TextResult(<<"a">>)

C6_ParseFailureInStructuredMode ==
    (EndedOnSuccess /\ json_output
        /\ ~IsJsonObject(DoCallReturn(LastAttempt.content, TRUE)))
    => result = ParseFailure

\* C6 amended: the parse failure belongs to analyze_text. When the text
\* call_model returns is not valid JSON, analyze_text raises AIError "Failed to
\* parse AI response." (the class of the aggregate failure, told apart by its
\* message); valid JSON of any kind is returned decoded; call_model itself
\* returns the text without an error. In each case the successful attempt is the
\* last network attempt of the request.
C6_ParseFailureInAnalyzeText ==
    EndedOnSuccess =>
        LET text == DoCallReturn(LastAttempt.content, json_output)
        IN  /\ (entry = "analyze_text" /\ ~JsonLoads(text)) =>
                 /\ result = ParseFailure
                 /\ result.cls = AggregateError(NoExc, NoExc).cls
                 /\ ~Contains(result.message, <<"AI service completely unavailable (Primary: ">>)
                 /\ raised = 1
            /\ (entry = "analyze_text" /\ JsonLoads(text)) =>
                 /\ result = JsonResult(text)
                 /\ raised = 0
            /\ entry = "call_model" =>
                 /\ result = TextResult(text)
                 /\ raised = 0
            /\ \A i \in 1..(Len(attempts) - 1) : attempts[i].outcome # "ok"

C6_Witness ==
    /\ EndedOnSuccess
    /\ entry = "analyze_text"
    /\ ~JsonMatch(LastAttempt.content).found
    /\ result = ParseFailure
    /\ Len(attempts) = 1

----------------------------------------------------------------------------
(* Properties of the task executor *)

Terminal == {"COMPLETED", "FAILED"}

\* the status changes process_task may make
AllowedTransitions ==
    { <<"PENDING", "PROCESSING">>, <<"PROCESSING", "COMPLETED">>,
      <<"PROCESSING", "RETRYING">>, <<"PROCESSING", "FAILED">>,
      <<"RETRYING", "PROCESSING">> }

\* no dispatch of the task is in flight and its commits all went through
Settled(id) == running # id /\ ~dbfault[id]

\* the handler raised on every one of the first n invocations for the task
RaisedOnFirst(id, n) == \A i \in 1..n : hist[id][i] = "raise"

\* C7: a task whose handler raised on each of its k >= 1 dispatches (commits
\* succeeding) is RETRYING with retries = k while k < max_retries, and FAILED
\* with retries = max_retries once k = max_retries.
C7_FailsAfterMaxRetries ==
    \A id \in 1..Len(tasks) :
        LET k == Len(hist[id])
        IN  (Settled(id) /\ k >= 1 /\ RaisedOnFirst(id, k)) =>
                /\ k < tasks[id].max_retries =>
                     (tasks[id].status = "RETRYING" /\ tasks[id].retries = k)
                /\ k = tasks[id].max_retries =>
                     (tasks[id].status = "FAILED" /\ tasks[id].retries = tasks[id].max_retries)

C7_Witness ==
    \E id \in 1..Len(tasks) :
        /\ Settled(id)
        /\ tasks[id].max_retries = 3
        /\ hist[id] = <<"raise", "raise", "raise">>
        /\ tasks[id].status = "FAILED"
        /\ tasks[id].retries = 3

\* C8: a task whose handler raised on its first k dispatches and returned a
\* value on dispatch k+1 (commits succeeding) is COMPLETED with that value as
\* its result and retries = k.
C8_CompletesAfterFailures ==
    \A id \in 1..Len(tasks) :
        LET n == Len(hist[id])
        IN  (Settled(id) /\ n >= 1 /\ RaisedOnFirst(id, n - 1) /\ hist[id][n] # "raise") =>
                /\ tasks[id].status = "COMPLETED"
                /\ tasks[id].result = hist[id][n]
                /\ tasks[id].retries = n - 1

C8_Witness ==
    \E id \in 1..Len(tasks) :
        /\ Settled(id)
        /\ tasks[id].max_retries = 3
        /\ hist[id] = <<"raise", "raise", "analysis">>
        /\ tasks[id].status = "COMPLETED"
        /\ tasks[id].result = "analysis"
        /\ tasks[id].retries = 2

\* C9: with one dispatch in flight at a time, every change of a task's status
\* is one of the five allowed transitions, no row is removed, and a COMPLETED or
\* FAILED row never changes again.
C9_StatusTransitions ==
    [][/\ Len(tasks') >= Len(tasks)
       /\ \A id \in 1..Len(tasks) :
            /\ tasks'[id].status # tasks[id].status =>
                 <<tasks[id].status, tasks'[id].status>> \in AllowedTransitions
            /\ tasks[id].status \in Terminal => tasks'[id] = tasks[id]]_vars

C9_Witness ==
    /\ last_op = [op |-> "process_task", id |-> 1, outcome |-> "skipped"]
    /\ tasks[1].status = "FAILED"
    /\ Len(tasks) = 2
    /\ tasks[2].status = "COMPLETED"

\* C10: every task enqueue created eventually is COMPLETED or FAILED.
C10_EventuallyTerminal ==
    \A id \in 1..MaxTasks :
        (id <= Len(tasks)) ~> (id <= Len(tasks) /\ tasks[id].status \in Terminal)

\* a step that enters process_task for the id recorded in last_op'
DispatchEntered == running = 0 /\ last_op'.op = "process_task"

\* C11: a dispatch of an id whose task is PROCESSING, COMPLETED or FAILED, or
\* of an id without a task, starts no handler and changes no row.
C11_GuardedDispatch ==
    [][(DispatchEntered
          /\ (last_op'.id > Len(tasks)
              \/ tasks[last_op'.id].status \in {"PROCESSING", "COMPLETED", "FAILED"}))
       => /\ tasks' = tasks
          /\ hist' = hist
          /\ running' = 0
          /\ last_op'.outcome \in {"not_found", "skipped"}]_vars

C11_Witness ==
    /\ last_op = [op |-> "process_task", id |-> 1, outcome |-> "skipped"]
    /\ tasks[1].status = "PROCESSING"
    /\ running = 0
    /\ Len(hist[1]) = 1

\* C12 as stated: an enqueue of a type without a handler persists a task (every
\* enqueue that does not fail on its commit adds a row).
C12_UnknownTypePersisted ==
    [][(last_op'.op = "enqueue" /\ last_op'.outcome # CommitError)
       => Len(tasks') = Len(tasks) + 1]_vars

\* C12 amended: an enqueue of a type without a handler raises ValueError, adds
\* no row and schedules no dispatch; every row has a registered type, so no
\* dispatch records "No handler for type ...".
C12_UnknownTypeRejected ==
    /\ last_op.outcome = "ValueError" => (last_op.op = "enqueue" /\ last_op.id = 0)
    /\ \A id \in 1..Len(tasks) :
         /\ tasks[id].type = "resume_analysis"
         /\ tasks[id].error \in {None, CommitError} \cup HandlerErrors
    /\ \A i \in 1..Len(scheduled) : scheduled[i] <= Len(tasks)
    /\ last_op.outcome # "no_handler"

C12_Witness ==
    /\ last_op = [op |-> "enqueue", id |-> 0, outcome |-> "ValueError"]
    /\ tasks = << >>
    /\ scheduled = << >>

\* C13: an enqueue that returns has added one PENDING row with the column
\* defaults, has put its id on the background queue exactly once and has run no
\* handler; an enqueue whose commit fails adds no row and schedules nothing.
C13_EnqueuePersistsThenSchedules ==
    [][last_op'.op = "enqueue" =>
         /\ last_op'.outcome = "returned" =>
              LET id == last_op'.id
              IN  /\ id = Len(tasks) + 1
                  /\ Len(tasks') = id
                  /\ \A j \in 1..Len(tasks) : tasks'[j] = tasks[j]
                  /\ tasks'[id].status = "PENDING"
                  /\ tasks'[id].retries = 0
                  /\ tasks'[id].result = None
                  /\ hist'[id] = << >>
                  /\ running' = running
                  /\ Cardinality({i \in 1..Len(scheduled') : scheduled'[i] = id}) = 1
                  /\ Len(scheduled') = Len(scheduled) + 1
         /\ last_op'.outcome # "returned" =>
              /\ tasks' = tasks
              /\ scheduled' = scheduled
              /\ hist' = hist]_vars

C13_Witness ==
    /\ last_op = [op |-> "enqueue", id |-> 2, outcome |-> "returned"]
    /\ tasks[2].status = "PENDING"
    /\ scheduled = <<1, 2>>
    /\ hist[2] = << >>

\* C14: every task has retries <= max_retries and its handler has been invoked
\* at most max_retries times, for every max_retries from 0 up.
C14_RetriesBounded ==
    \A id \in 1..Len(tasks) :
        /\ tasks[id].retries <= tasks[id].max_retries
        /\ Len(hist[id]) <= tasks[id].max_retries

----------------------------------------------------------------------------
(* Properties of the trust wrapper and the audit ledger *)

\* every audit row that exists: committed, or flushed in the open transaction
AllEntries == audit_db \o sess_audit

EntryIds(rows) == {rows[i].id : i \in 1..Len(rows)}

\* this step is a wrap_and_log call that returned a response
WrapReturned == n_log' = n_log + 1 /\ trust_op'.op = "wrap_and_log"

\* this step is a caller's own log_action call whose write succeeded
LogSucceeded ==
    n_log' = n_log + 1 /\ trust_op'.op = "log_action" /\ trust_op'.audit = "ok"

\* C15: for every score s in [0, 1] passed to wrap_and_log with is_fallback
\* false, the returned confidence_level is HIGH iff s >= 0.8, MEDIUM iff
\* 0.5 <= s < 0.8 and LOW otherwise, and the score is returned as passed;
\* with is_fallback true the returned score is 0 and the level LOW whatever
\* score was passed.
C15_ConfidenceBanding ==
    response.outcome = "returned" =>
        IF wargs.is_fallback
        THEN /\ response.trust.confidence_score = 0
             /\ response.trust.confidence_level = "low"
        ELSE /\ wargs.confidence_score \in 0..10
             /\ response.trust.confidence_score = wargs.confidence_score
             /\ response.trust.confidence_level = "high"
                    <=> wargs.confidence_score >= 8
             /\ response.trust.confidence_level = "medium"
                    <=> (5 <= wargs.confidence_score /\ wargs.confidence_score < 8)
             /\ response.trust.confidence_level = "low"
                    <=> wargs.confidence_score < 5

\* a score of exactly 0.8 was wrapped and came back HIGH
C15_Witness ==
    /\ trust_op.op = "wrap_and_log"
    /\ response.outcome = "returned"
    /\ ~wargs.is_fallback
    /\ wargs.confidence_score = 8
    /\ response.trust.confidence_level = "high"

\* C16 as stated: every wrap_and_log call that returns adds exactly one audit
\* entry.
C16_AlwaysOneEntry ==
    [][WrapReturned => Len(AllEntries') = Len(AllEntries) + 1]_vars

\* C16: a wrap_and_log call that returns and whose audit write succeeds adds
\* exactly one audit entry, whose action is action_type, whose ai_recommended
\* is true and whose after_state embeds the dump of the trust metadata
\* returned in the response, and it changes no other entry; a call whose audit
\* write fails returns too and adds no entry.
C16_OneEntryWhenAuditSucceeds ==
    [][WrapReturned =>
         /\ response'.outcome = "returned"
         /\ audit_db' = audit_db
         /\ IF trust_op'.audit = "ok"
            THEN /\ Len(sess_audit') = Len(sess_audit) + 1
                 /\ SubSeq(sess_audit', 1, Len(sess_audit)) = sess_audit
                 /\ LET e == sess_audit'[Len(sess_audit')]
                    IN /\ e.action = wargs.action_type
                       /\ e.ai_recommended = TRUE
                       /\ \E x \in e.after_state :
                            /\ x.key = "trust_metadata"
                            /\ x.value = [response'.trust EXCEPT !.kind = "dict"]
            ELSE sess_audit' \in {sess_audit, << >>}]_vars

\* one wrap_and_log call returned and its entry is in the session
C16_Witness ==
    /\ trust_op = [op |-> "wrap_and_log", outcome |-> "returned", audit |-> "ok"]
    /\ response.outcome = "returned"
    /\ Len(sess_audit) = 1
    /\ sess_audit[1].ai_recommended
    /\ sess_audit[1].action = wargs.action_type

\* C17: when the audit write fails during wrap_and_log, the response is the one
\* the call returns on audit success, and the wrapper has logged its critical
\* event for the failure.
C17_AuditFailureSurfaced ==
    (trust_op.op = "wrap_and_log" /\ trust_op.outcome = "returned"
        /\ trust_op.audit # "ok")
    => /\ response = TrustedAIResponse(wargs, TrustOf(wargs))
       /\ CriticalAuditFailure \in diag

\* C18 as stated: the returned content is a plain string, and with data absent
\* a map, an object with a dump or a list is promoted to data with the
\* placeholder as content.
C18_StructuredPromoted ==
    response.outcome = "returned" =>
        /\ response.content.shape = "str"
        /\ (wargs.data = NoData /\ wargs.content.shape \in {"dict", "model", "list"})
           => /\ response.content.v = "Structured AI Response"
              /\ response.data # NoData
              /\ response.data.v = wargs.content.v

\* C18: for every shape of content and with data present or absent the returned
\* content is a plain string; with data absent a map or an object with a dump
\* is promoted to data (the object as its dump) and content is the
\* placeholder, while a string is returned as it is and a list or any other
\* value is returned as its str() with no data; with data present data is
\* returned as passed and content is str(content).
C18_MapsAndObjectsPromoted ==
    response.outcome = "returned" =>
        /\ response.content.shape = "str"
        /\ (wargs.data = NoData /\ wargs.content.shape \in {"dict", "model"})
           => /\ response.content.v = "Structured AI Response"
              /\ response.data = [shape |-> "dict", v |-> wargs.content.v]
        /\ (wargs.data = NoData /\ wargs.content.shape = "str")
           => /\ response.content = wargs.content
              /\ response.data = NoData
        /\ (wargs.data = NoData /\ wargs.content.shape \in {"list", "other"})
           => /\ response.content.v = wargs.content.shape \o ":" \o wargs.content.v
              /\ response.data = NoData
        /\ wargs.data # NoData
           => /\ response.data = wargs.data
              /\ response.content.v =
                    (IF wargs.content.shape = "str" THEN wargs.content.v
                     ELSE wargs.content.shape \o ":" \o wargs.content.v)

\* a list was wrapped without data and came back as its str()
C18_Witness ==
    /\ trust_op.op = "wrap_and_log"
    /\ response.outcome = "returned"
    /\ wargs.content.shape = "list"
    /\ wargs.data = NoData
    /\ response.data = NoData
    /\ response.content = [shape |-> "str", v |-> "list:payload"]

\* C19: log_action never raises to its caller, and after a log_action call
\* that failed internally the caller's pending changes in the same session can
\* still be committed: no pending change is lost and no commit raises.
C19_BusinessCommittable ==
    /\ trust_op.op = "log_action" => trust_op.outcome = "returned"
    /\ sess_business # "lost"
    /\ trust_op.op = "commit" => trust_op.outcome = "returned"

\* C20: a successful log_action call appends one new entry whose id differs
\* from the id of every entry there is, whatever their arguments, and leaves
\* every earlier entry as it was; so two successful calls with identical
\* arguments give two entries with different ids.
C20_Additive ==
    [][LogSucceeded =>
         /\ audit_db' = audit_db
         /\ Len(sess_audit') = Len(sess_audit) + 1
         /\ SubSeq(sess_audit', 1, Len(sess_audit)) = sess_audit
         /\ sess_audit'[Len(sess_audit')].id \notin EntryIds(AllEntries)]_vars

\* two log_action calls with identical arguments left two entries
C20_Witness ==
    /\ trust_op = [op |-> "log_action", outcome |-> "returned", audit |-> "ok"]
    /\ \E i, j \in 1..Len(AllEntries) :
          /\ i < j
          /\ SameArgs(AllEntries[i], AllEntries[j])
          /\ ~AllEntries[i].ai_recommended
          /\ AllEntries[i].id # AllEntries[j].id

----------------------------------------------------------------------------
(* Further properties of the task executor *)

\* C28: in every reachable state a task has a result only if its status is
\* COMPLETED, every task in RETRYING or FAILED has a non-empty error, and a
\* COMPLETED task carries no error left from an earlier failed attempt.
C28_ResultErrorConsistent ==
    \A id \in 1..Len(tasks) :
        /\ tasks[id].result # None => tasks[id].status = "COMPLETED"
        /\ tasks[id].status \in {"RETRYING", "FAILED"}
               => tasks[id].error \notin {None, ""}
        /\ tasks[id].status = "COMPLETED" => tasks[id].error = None

----------------------------------------------------------------------------
(* Further properties of the trust wrapper and the audit ledger *)

\* C29: for every wrap_and_log call that returns, the caller's
\* requires_human_confirmation, model_name and sources appear unchanged in the
\* returned trust metadata, also when is_fallback is true.
C29_CallerFieldsKept ==
    response.outcome = "returned" =>
        /\ response.trust.requires_human_confirmation
               = wargs.requires_human_confirmation
        /\ response.trust.ai_model = wargs.model_name
        /\ response.trust.sources = wargs.sources

\* C22: when a request has committed its business change and has then recorded
\* audit entries with log_action or wrap_and_log, every such entry is in the
\* audit table after the request's session is closed.
C22_AuditDurableAtClose ==
    [][(trust_op'.op = "close" /\ sess_business = "committed")
       => \A i \in 1..Len(sess_audit) :
             \E j \in 1..Len(audit_db') : audit_db'[j] = sess_audit[i]]_vars

\* C21: across record, wrap, session and purge operations a committed audit
\* entry is never modified, and it leaves the audit table only in a successful
\* enforce_data_retention call and only if its timestamp is older than now
\* minus retention_days; no other operation removes an entry.
C21_WriteOnceAgeGatedPurge ==
    [][\A i \in 1..Len(audit_db) :
          \/ \E j \in 1..Len(audit_db') : audit_db'[j] = audit_db[i]
          \/ /\ trust_op'.op = "enforce_data_retention"
             /\ trust_op'.outcome = "returned"
             /\ audit_db[i].timestamp < now - retention_days']_vars

\* a purge removed an old entry and left a younger one in the table
C21_Witness ==
    /\ trust_op = [op |-> "enforce_data_retention", outcome |-> "returned",
                   audit |-> "purged"]
    /\ Len(audit_db) = 1
    /\ audit_db[1].id = 2
    /\ audit_db[1].timestamp >= now - retention_days

----------------------------------------------------------------------------
(* Further properties of the gateway *)

\* C23: every call_model invocation that ends with text from a model while a
\* db_session is supplied has attempted one governance-log write, whether the
\* text came from the primary or from the fallback model.
C23_GovernanceLogged ==
    (EndedOnSuccess /\ db_session) => Len(gov) = 1

\* C24: when the governance-log write fails, call_model still returns the
\* primary model's text, raises nothing, makes no fallback attempt, and the
\* caller's uncommitted changes in the supplied session are still pending.
C24_GovernanceFailureIsolated ==
    (pc = "done" /\ gov # << >> /\ gov[1].outcome # "ok")
    => /\ LastAttempt.model = "primary"
       /\ LastAttempt.outcome = "ok"
       /\ result = Deliver(entry, DoCallReturn(LastAttempt.content, json_output))
       /\ raised = (IF result = ParseFailure THEN 1 ELSE 0)
       /\ FallbackLog = << >>
       /\ caller_tx = "pending"

\* C30: the kill switch is read once per call, at entry.  A call entered while
\* the switch is on ends at once with no network attempt.  A call that passed
\* the guards is not stopped by the switch: whatever the switch is, its next
\* step is a network attempt or a flip of the switch, and it ends only on a
\* successful attempt or after three failed primary and three failed fallback
\* attempts.
C30_SwitchReadAtEntry ==
    [][/\ (pc = "idle" /\ pc' # "idle" /\ kill_switch)
             => (pc' = "done" /\ attempts' = << >>)
       /\ (pc = "idle" /\ pc' # "idle" /\ ~kill_switch /\ api_key)
             => pc' = "primary"
       /\ pc \in {"primary", "fallback"}
             => \/ Len(attempts') = Len(attempts) + 1
                \/ (kill_switch' # kill_switch /\ attempts' = attempts /\ pc' = pc)
       /\ (pc \in {"primary", "fallback"} /\ pc' = "done")
             => \/ attempts'[Len(attempts')].outcome = "ok"
                \/ /\ Len(SelectSeq(attempts', LAMBDA a : a.model = "primary")) = 3
                   /\ Len(SelectSeq(attempts', LAMBDA a : a.model = "fallback")) = 3]_vars

\* the switch is on and a call that was in flight has run through all its
\* primary and fallback attempts
C30_Witness ==
    /\ kill_switch
    /\ pc = "done"
    /\ Len(PrimaryLog) = 3
    /\ Len(FallbackLog) = 3
    /\ result.kind = "error"

\* C25: when the AI call behind a synchronous AI endpoint fails with a
\* configuration error, a kill-switch error or an aggregate primary+fallback
\* failure, the endpoint answers with HTTP 503.
C25_ServiceUnavailable ==
    http.cause \in {"configuration", "kill_switch", "aggregate"}
        => http.status = 503

----------------------------------------------------------------------------
(* Properties of the leave endpoints *)

\* C26: a leave request becomes APPROVED exactly when the number of approvals
\* reaches its required_levels (1 when unset) with no rejection in between,
\* a rejection makes it REJECTED at once, and an approve or reject call on a
\* request that is not PENDING fails and leaves the request unchanged.
C26_ApprovalWorkflow ==
    [][\A id \in 1..Len(leaves) :
        LET called == /\ leave_op'.id = id
                      /\ leave_op'.op \in {"approve", "reject"}
            becomes == /\ leaves[id].status # "approved"
                       /\ leaves'[id].status = "approved"
            reaches == /\ leaves[id].status = "pending"
                       /\ approvals[id] < Required(leaves[id])
                       /\ approvals'[id] = Required(leaves[id])
        IN  /\ becomes <=> reaches
            /\ (called /\ leaves[id].status = "pending"
                       /\ leave_op'.op = "reject"
                       /\ leave_op'.status_code = 200)
                 => leaves'[id].status = "rejected"
            /\ (called /\ leaves[id].status # "pending")
                 => (/\ leaves'[id] = leaves[id]
                     /\ leave_op'.status_code >= 400)]_vars

----------------------------------------------------------------------------
(* Properties of two workers on one task *)

\* C27: when two dispatches of the same task id interleave, the handler is
\* invoked by at most one of them for an attempt, and a COMPLETED or FAILED
\* status written by one is never overwritten by the other.
C27_RecheckPreventsDoubleProcessing ==
    [][/\ \A a \in 0..MaxRetriesBound :
            Cardinality({w \in Workers : <<a, w>> \in invoked'}) <= 1
       /\ shared.status \in {"COMPLETED", "FAILED"}
            => shared'.status = shared.status]_vars

====
